---- MODULE Spec2Model ----
(***************************************************************************)
(* NutriVision (src/app.py): fact extraction from the analysis text, the   *)
(* users / history tables, the session state of each browser session and   *)
(* the report document, modelled as a state machine.                       *)
(*                                                                         *)
(* A Python str is a sequence of one-character strings.                    *)
(***************************************************************************)
EXTENDS Integers, Sequences, FiniteSets, TLC

VARIABLES users, history, seq, lock, session, run, out, text, pc, ret

vars == <<users, history, seq, lock, session, run, out, text, pc, ret>>
appvars == <<users, history, seq, lock, session, run, out>>
fnvars == <<text, pc, ret>>

(***************************************************************************)
(* Bounds of the model.                                                    *)
(***************************************************************************)
MaxHistory == 2
MaxFrags == 3

(***************************************************************************)
(* Characters.                                                             *)
(***************************************************************************)
Ascii == <<" ","!","\"","#","$","%","&","'","(",")","*","+",",","-",".","/",
           "0","1","2","3","4","5","6","7","8","9",":",";","<","=",">","?",
           "@","A","B","C","D","E","F","G","H","I","J","K","L","M","N","O",
           "P","Q","R","S","T","U","V","W","X","Y","Z","[","\\","]","^","_",
           "U+0060","a","b","c","d","e","f","g","h","i","j","k","l","m","n","o",
           "p","q","r","s","t","u","v","w","x","y","z","{","|","}","~">>

(* characters outside the printable ASCII range, with their code points;
   a character without a TLA+ escape is written U+XXXX *)
Named ==
  << <<"\t", 9>>, <<"\n", 10>>, <<"U+000B", 11>>, <<"\f", 12>>, <<"\r", 13>>,
     <<"U+001C", 28>>, <<"U+001D", 29>>, <<"U+001E", 30>>, <<"U+001F", 31>>,
     <<"U+0085", 133>>, <<"U+00A0", 160>>, <<"U+00B2", 178>>,
     <<"U+00E9", 233>>, <<"U+0130", 304>>, <<"U+0131", 305>>,
     <<"U+017F", 383>>, <<"U+0663", 1635>>, <<"U+1680", 5760>>,
     <<"U+2000", 8192>>, <<"U+2001", 8193>>, <<"U+2002", 8194>>,
     <<"U+2003", 8195>>, <<"U+2004", 8196>>, <<"U+2005", 8197>>,
     <<"U+2006", 8198>>, <<"U+2007", 8199>>, <<"U+2008", 8200>>,
     <<"U+2009", 8201>>, <<"U+200A", 8202>>, <<"U+2013", 8211>>,
     <<"U+2028", 8232>>, <<"U+2029", 8233>>, <<"U+202F", 8239>>,
     <<"U+205F", 8287>>, <<"U+212A", 8490>>, <<"U+3000", 12288>> >>

(* "".join: the strings of a sequence, one after the other *)
RECURSIVE concat(_)
concat(fs) ==
  IF Len(fs) = 0 THEN <<>>
  ELSE IF Len(fs) = 1 THEN fs[1]
  ELSE concat(SubSeq(fs, 1, Len(fs) \div 2))
         \o concat(SubSeq(fs, (Len(fs) \div 2) + 1, Len(fs)))

Min(S) == CHOOSE x \in S : \A y \in S : x <= y

Max(S) == CHOOSE x \in S : \A y \in S : x >= y

(* the code point of every character of the alphabet *)
named_points(pairs) ==
  [c \in { pairs[n][1] : n \in DOMAIN pairs } |->
     pairs[CHOOSE n \in DOMAIN pairs : pairs[n][1] = c][2]]

ascii_points(a) ==
  [c \in { a[i] : i \in DOMAIN a } |-> 31 + (CHOOSE i \in DOMAIN a : a[i] = c)]

CodePoints == named_points(Named) @@ ascii_points(Ascii)

ord(c) == CodePoints[c]

(* the characters that the lower case of re.I changes, with the dotted and
   the dotless i equal to i, the long s to s and the Kelvin sign to k *)
CaseFold ==
  ("A" :> "a") @@ ("B" :> "b") @@ ("C" :> "c") @@ ("D" :> "d") @@ 
  ("E" :> "e") @@ ("F" :> "f") @@ ("G" :> "g") @@ ("H" :> "h") @@ 
  ("I" :> "i") @@ ("J" :> "j") @@ ("K" :> "k") @@ ("L" :> "l") @@ 
  ("M" :> "m") @@ ("N" :> "n") @@ ("O" :> "o") @@ ("P" :> "p") @@ 
  ("Q" :> "q") @@ ("R" :> "r") @@ ("S" :> "s") @@ ("T" :> "t") @@ 
  ("U" :> "u") @@ ("V" :> "v") @@ ("W" :> "w") @@ ("X" :> "x") @@ 
  ("Y" :> "y") @@ ("Z" :> "z") @@ ("U+0130" :> "i") @@ 
  ("U+0131" :> "i") @@ ("U+017F" :> "s") @@ ("U+212A" :> "k")

lower(c) == IF c \in DOMAIN CaseFold THEN CaseFold[c] ELSE c

(* the characters of the class of decimal digits: ASCII and Arabic-Indic *)
DigitChars == {"0","1","2","3","4","5","6","7","8","9","U+0663"}

IsDigit(c) == c \in DigitChars

(* code points of the digit zero in the decimal scripts of the alphabet *)
DecimalZeros == {48, 1632}

(* the value int gives the decimal digit of code point n *)
digit_of(n) == n - Max({ z \in DecimalZeros : z <= n })

digit_value(c) == digit_of(ord(c))

(* str.isspace: the white space of the regex class and of str.strip, code
   points 9-13, 28-32, 133, 160, 5760, 8192-8202, 8232, 8233, 8239, 8287
   and 12288 *)
SpaceChars ==
  {"\t","\n","U+000B","\f","\r","U+001C","U+001D","U+001E","U+001F"," ",
   "U+0085","U+00A0","U+1680","U+2000","U+2001","U+2002","U+2003",
   "U+2004","U+2005","U+2006","U+2007","U+2008","U+2009","U+200A",
   "U+2028","U+2029","U+202F","U+205F","U+3000"}

IsSpace(c) == c \in SpaceChars

(* the characters of the word class besides the decimal digits: letters,
   the underscore and the superscript two *)
WordChars ==
  {"A","B","C","D","E","F","G","H","I","J","K","L","M","N","O","P","Q",
   "R","S","T","U","V","W","X","Y","Z","a","b","c","d","e","f","g","h",
   "i","j","k","l","m","n","o","p","q","r","s","t","u","v","w","x","y",
   "z","_","U+00B2","U+00E9","U+0130","U+0131","U+017F","U+212A"}

IsWord(c) == IsDigit(c) \/ c \in WordChars

IsSep(c) == c = ":" \/ IsSpace(c)

(* s[i..j-1] lies in the character class *)
Digits(s, i, j) == \A n \in i..(j - 1) : IsDigit(s[n])

Spaces(s, i, j) == \A n \in i..(j - 1) : IsSpace(s[n])

Words(s, i, j) == \A n \in i..(j - 1) : IsWord(s[n])

Seps(s, i, j) == \A n \in i..(j - 1) : IsSep(s[n])

(* the end of the longest run of the class that starts at i: the first
   position from i on that is outside the class, or past the end *)
DigitRun(s, i) ==
  CHOOSE e \in i..(Len(s) + 1) :
    (e = Len(s) + 1 \/ ~IsDigit(s[e])) /\ Digits(s, i, e)

SpaceRun(s, i) ==
  CHOOSE e \in i..(Len(s) + 1) :
    (e = Len(s) + 1 \/ ~IsSpace(s[e])) /\ Spaces(s, i, e)

WordRun(s, i) ==
  CHOOSE e \in i..(Len(s) + 1) :
    (e = Len(s) + 1 \/ ~IsWord(s[e])) /\ Words(s, i, e)

SepRun(s, i) ==
  CHOOSE e \in i..(Len(s) + 1) :
    (e = Len(s) + 1 \/ ~IsSep(s[e])) /\ Seps(s, i, e)

(* the literal lit occurs at position i, compared as re.I compares *)
LitAt(s, i, lit) ==
  /\ i + Len(lit) - 1 <= Len(s)
  /\ \A n \in 1..Len(lit) : lower(s[i + n - 1]) = lower(lit[n])

(* the number a string of decimal digits denotes *)
RECURSIVE decimal(_)
decimal(ds) ==
  IF Len(ds) = 0 THEN 0
  ELSE 10 * decimal(SubSeq(ds, 1, Len(ds) - 1)) + digit_value(ds[Len(ds)])

None == -1

(* the exception int raises, where a number is expected *)
ValueError == -2

(* sys.get_int_max_str_digits(): the longest digit string int converts,
   leading zeros counted *)
int_max_str_digits == 4300

int(ds) ==
  IF Len(ds) > int_max_str_digits THEN ValueError ELSE decimal(ds)

(***************************************************************************)
(* extract_calories: search for digits, optional whitespace, kcal (re.I)   *)
(***************************************************************************)
kcal == <<"k","c","a","l">>

(* ends j of group 1 for which the pattern matches from start i: the group
   is one or more digits, then come white space of any length and kcal *)
CalGroupEnds(s, i) ==
  IF ~IsDigit(s[i]) THEN {}
  ELSE { j \in (i + 1)..DigitRun(s, i) :
           \E k \in j..SpaceRun(s, j) : LitAt(s, k, kcal) }

(* leftmost start; the greedy group keeps the longest digits that complete *)
search_calories(s) ==
  IF \E i \in 1..Len(s) : CalGroupEnds(s, i) # {}
  THEN LET i == CHOOSE i \in 1..Len(s) :
                  /\ CalGroupEnds(s, i) # {}
                  /\ \A i2 \in 1..(i - 1) : CalGroupEnds(s, i2) = {}
       IN  [ok |-> TRUE, g1 |-> SubSeq(s, i, Max(CalGroupEnds(s, i)) - 1)]
  ELSE [ok |-> FALSE, g1 |-> <<>>]

extract_calories(s) ==
  LET m == search_calories(s) IN IF m.ok THEN int(m.g1) ELSE 0

(***************************************************************************)
(* extract_macros: label, optional word suffix, separators, digits         *)
(***************************************************************************)
Protein == <<"P","r","o","t","e","i","n">>
Carb == <<"C","a","r","b">>
Fat == <<"F","a","t">>

(* ends k of the separators from w: one or more colons or white space, and
   a digit next *)
SepEnds(s, w) ==
  { k \in (w + 1)..SepRun(s, w) : k <= Len(s) /\ IsDigit(s[k]) }

(* ends w of the word suffix (w = a when the pattern has none) from which
   the separators and the digits match *)
SuffixEnds(s, a, suffix) ==
  { w \in a..(IF suffix THEN WordRun(s, a) ELSE a) : SepEnds(s, w) # {} }

(* the greedy digits of group 1 end where the run of digits ends *)
search_field(s, label, suffix) ==
  LET starts == { i \in 1..Len(s) :
                    LitAt(s, i, label) /\ SuffixEnds(s, i + Len(label), suffix) # {} }
  IN  IF starts = {} THEN [ok |-> FALSE, g1 |-> <<>>]
      ELSE LET i == Min(starts)
               w == Max(SuffixEnds(s, i + Len(label), suffix))
               k == Max(SepEnds(s, w))
               j == DigitRun(s, k)
           IN  [ok |-> TRUE, g1 |-> SubSeq(s, k, j - 1)]

(* the result of the three conversions: the triple, or the exception of the
   first conversion that raises, written as a sequence of length one *)
converted(p, c, f) ==
  IF ValueError \in {p, c, f} THEN <<ValueError>> ELSE <<p, c, f>>

extract_macros(s) ==
  LET p == search_field(s, Protein, FALSE)
      c == search_field(s, Carb, TRUE)
      f == search_field(s, Fat, TRUE)
  IN  IF ~(p.ok /\ c.ok /\ f.ok) THEN <<None, None, None>>
      ELSE converted(int(p.g1), int(c.g1), int(f.g1))

(***************************************************************************)
(* clean_text and generate_pdf                                             *)
(***************************************************************************)
escape_char(c) ==
  IF c = "&" THEN <<"&","a","m","p",";">>
  ELSE IF c = "<" THEN <<"&","l","t",";">>
  ELSE IF c = ">" THEN <<"&","g","t",";">>
  ELSE IF c = "\"" THEN <<"&","q","u","o","t",";">>
  ELSE IF c = "'" THEN <<"&","#","x","2","7",";">>
  ELSE <<c>>

RECURSIVE html_escape(_)
html_escape(s) ==
  IF Len(s) = 0 THEN <<>> ELSE escape_char(Head(s)) \o html_escape(Tail(s))

(* str.replace(old, ""): leftmost non-overlapping occurrences are removed *)
RECURSIVE remove(_, _)
remove(s, old) ==
  IF Len(s) < Len(old) THEN s
  ELSE IF SubSeq(s, 1, Len(old)) = old
       THEN remove(SubSeq(s, Len(old) + 1, Len(s)), old)
       ELSE <<Head(s)>> \o remove(Tail(s), old)

clean_text(s) == remove(remove(html_escape(s), <<"*","*">>), <<"*">>)

(* str.split on the newline *)
RECURSIVE split(_)
split(s) ==
  LET nl == { i \in 1..Len(s) : s[i] = "\n" }
  IN  IF nl = {} THEN <<s>>
      ELSE <<SubSeq(s, 1, Min(nl) - 1)>> \o split(SubSeq(s, Min(nl) + 1, Len(s)))

(* str.strip() *)
strip(s) ==
  LET keep == { i \in 1..Len(s) : ~IsSpace(s[i]) }
  IN  IF keep = {} THEN <<>> ELSE SubSeq(s, Min(keep), Max(keep))

Para(t, style) == [kind |-> "Paragraph", text |-> t, style |-> style, height |-> 0]

Spacer(h) == [kind |-> "Spacer", text |-> <<>>, style |-> "", height |-> h]

TitleText ==
  <<"N","u","t","r","i","V","i","s","i","o","n"," ","U+2013"," ","N","u",
    "t","r","i","t","i","o","n"," ","R","e","p","o","r","t">>

GeneratedOn ==
  <<"G","e","n","e","r","a","t","e","d"," ","o","n",":"," ">>

FooterText ==
  <<"G","e","n","e","r","a","t","e","d"," ","u","s","i","n","g"," ","N",
    "u","t","r","i","V","i","s","i","o","n"," ","A","p","p">>

(* datetime.strftime with day-month-year hour:minute, zero padded *)
digit(d) == Ascii[d + 17]

pad2(n) == <<digit(n \div 10), digit(n % 10)>>

pad4(n) ==
  <<digit(n \div 1000), digit((n \div 100) % 10), digit((n \div 10) % 10), digit(n % 10)>>

strftime(t) ==
  pad2(t.day) \o <<"-">> \o pad2(t.month) \o <<"-">> \o pad4(t.year)
    \o <<" ">> \o pad2(t.hour) \o <<":">> \o pad2(t.minute)

(* the loop over the lines of the cleaned text *)
RECURSIVE pdf_body_noskip(_)
pdf_body_noskip(lines) ==
  IF Len(lines) = 0 THEN <<>>
  ELSE <<Para(Head(lines), "NormalText"), Spacer(6)>> \o pdf_body_noskip(Tail(lines))

RECURSIVE pdf_body(_)
pdf_body(lines) ==
  IF Len(lines) = 0 THEN <<>>
  ELSE (IF strip(Head(lines)) # <<>>
        THEN <<Para(Head(lines), "NormalText"), Spacer(6)>>
        ELSE <<>>) \o pdf_body(Tail(lines))

generate_pdf(s, now) ==
  << Para(TitleText, "Title"), Spacer(10),
     Para(GeneratedOn \o strftime(now), "Normal"), Spacer(14) >>
  \o pdf_body(split(clean_text(s)))
  \o << Spacer(20), Para(FooterText, "Italic") >>

(* the body paragraphs of a story, in order *)
BodyParagraphs(story) ==
  SelectSeq(story, LAMBDA fl : fl.kind = "Paragraph" /\ fl.style = "NormalText")

(***************************************************************************)
(* The pie chart block: the slices drawn, or no chart.                     *)
(***************************************************************************)
pie_chart_nonneg(m) ==
  IF (\A i \in 1..3 : m[i] # None) /\ (m[1] + m[2] + m[3]) >= 0 THEN m ELSE <<>>

pie_chart(m) ==
  IF (\A i \in 1..3 : m[i] # None) /\ (m[1] + m[2] + m[3]) > 0 THEN m ELSE <<>>

(***************************************************************************)
(* Accounts.                                                               *)
(***************************************************************************)
Usernames == {"u1", "u2"}

Passwords == {"pw1", "pw2"}

Sessions == {"s1", "s2"}

(* hashlib.sha256(p.encode()).hexdigest() on the passwords of the model *)
hash_pass(p) ==
  CASE p = "pw1" -> "c592df4a86933b92addc9842402ddf198c638ea9be58916ee6e3734e1e3152f8"
    [] p = "pw2" -> "93915a0a4bf8f634cb1856494dd4304472ad46b9827f541f76b6761c49cc55b0"

(* INSERT INTO users: the primary key on username rejects a second row *)
insert_user_nokey(tbl, nu, h) ==
  [ok |-> TRUE, tbl |-> tbl \cup {[username |-> nu, password |-> h]}]

insert_user(tbl, nu, h) ==
  IF \E r \in tbl : r.username = nu
  THEN [ok |-> FALSE, tbl |-> tbl]
  ELSE [ok |-> TRUE, tbl |-> tbl \cup {[username |-> nu, password |-> h]}]

(* SELECT password FROM users WHERE username=? ; fetchone() *)
select_password(tbl, u) ==
  LET rs == { r \in tbl : r.username = u }
  IN  IF rs = {} THEN <<>> ELSE <<(CHOOSE r \in rs : TRUE).password>>

credentials_ok_any(tbl, u, p) == TRUE

credentials_ok(tbl, u, p) ==
  LET r == select_password(tbl, u) IN r # <<>> /\ r[1] = hash_pass(p)

(***************************************************************************)
(* History.                                                                *)
(***************************************************************************)
(* AUTOINCREMENT: one more than the largest rowid ever used *)
next_id(tbl, sq) == Max({sq} \cup { r.id : r \in tbl }) + 1

(* the first line of the text: result.split(newline)[0] *)
first_line(s) == split(s)[1]

history_row(u, now, result) ==
  [username |-> u, date |-> strftime(now), meal |-> first_line(result),
   calories |-> extract_calories(result), details |-> result]

insert_history_evict(tbl, sq, row) ==
  { r \in tbl : r.username # row.username }
    \cup { [id |-> next_id(tbl, sq)] @@ row }

insert_history(tbl, sq, row) ==
  tbl \cup { [id |-> next_id(tbl, sq)] @@ row }

(* binding a Python int to an INTEGER parameter raises OverflowError from
   2^63 on; 2^63 is written as 2^30 * 2^30 * 8 *)
sqlite_overflow(n) == ((n \div 1073741824) \div 1073741824) \div 8 >= 1

(* byte-wise comparison of two TEXT values (BINARY collation) *)
RECURSIVE text_less(_, _)
text_less(a, b) ==
  IF Len(b) = 0 THEN FALSE
  ELSE IF Len(a) = 0 THEN TRUE
  ELSE IF Head(a) # Head(b) THEN ord(Head(a)) < ord(Head(b))
  ELSE text_less(Tail(a), Tail(b))

(* SELECT date, meal, calories FROM history WHERE username=? ORDER BY date
   DESC: every order of the matching rows that is descending by date; rows
   of equal date come in any order *)
select_history_all(tbl, owner) ==
  LET n == Cardinality(tbl)
      orders == { f \in [1..n -> tbl] :
                    /\ \A i, j \in 1..n : i # j => f[i] # f[j]
                    /\ \A i, j \in 1..n : i < j => ~text_less(f[i].date, f[j].date) }
  IN  { [i \in 1..n |-> [date |-> f[i].date, meal |-> f[i].meal,
                         calories |-> f[i].calories]] : f \in orders }

select_history(tbl, owner) ==
  LET matching == { r \in tbl : r.username = owner }
      n == Cardinality(matching)
      orders == { f \in [1..n -> matching] :
                    /\ \A i, j \in 1..n : i # j => f[i] # f[j]
                    /\ \A i, j \in 1..n : i < j => ~text_less(f[i].date, f[j].date) }
  IN  { [i \in 1..n |-> [date |-> f[i].date, meal |-> f[i].meal,
                         calories |-> f[i].calories]] : f \in orders }

(***************************************************************************)
(* The WhatsApp share link.                                                *)
(***************************************************************************)
APP_URL ==
  <<"h","t","t","p","s",":","/","/","n","u","t","r","i","-","a","p","p",".",
    "o","n","r","e","n","d","e","r",".","c","o","m">>

(* the characters of the usernames of the model *)
Spelling == [u \in Usernames |-> IF u = "u1" THEN <<"u","1">> ELSE <<"u","2">>]

(* the f-string share_text: heading, user, the analysis text and the URL *)
share_text(username, result) ==
  <<"\n","N","u","t","r","i","V","i","s","i","o","n"," ","U+2013"," ","N","u",
    "t","r","i","t","i","o","n"," ","R","e","p","o","r","t","\n","\n",
    "U","s","e","r",":"," ">>
  \o username \o <<"\n","\n">> \o result
  \o <<"\n","\n","D","o","w","n","l","o","a","d"," ","f","u","l","l"," ",
       "P","D","F",":","\n">>
  \o APP_URL \o <<"\n">>

(* str.encode: the UTF-8 bytes of a code point below 2^16 *)
utf8(n) ==
  IF n < 128 THEN <<n>>
  ELSE IF n < 2048 THEN <<192 + (n \div 64), 128 + (n % 64)>>
  ELSE <<224 + (n \div 4096), 128 + ((n \div 64) % 64), 128 + (n % 64)>>

Hex == <<"0","1","2","3","4","5","6","7","8","9","A","B","C","D","E","F">>

(* the characters urllib.parse.quote leaves as they are with the default
   safe="/": ASCII letters, digits and _ . - ~ / *)
Unreserved ==
  {"A","B","C","D","E","F","G","H","I","J","K","L","M","N","O","P","Q",
   "R","S","T","U","V","W","X","Y","Z","a","b","c","d","e","f","g","h",
   "i","j","k","l","m","n","o","p","q","r","s","t","u","v","w","x","y",
   "z","0","1","2","3","4","5","6","7","8","9","_",".","-","~","/"}

(* %XX for each byte *)
percent(b) ==
  concat([i \in 1..Len(b) |-> <<"%", Hex[(b[i] \div 16) + 1], Hex[(b[i] % 16) + 1]>>])

quote_char(c) == IF c \in Unreserved THEN <<c>> ELSE percent(utf8(ord(c)))

quote(s) == concat([i \in 1..Len(s) |-> quote_char(s[i])])

wa_me ==
  <<"h","t","t","p","s",":","/","/","w","a",".","m","e","/","?","t","e","x","t","=">>

whatsapp_share(t) == wa_me \o quote(t)

(***************************************************************************)
(* The clock read by datetime.now().                                       *)
(***************************************************************************)
Times ==
  { t \in [day : {1, 2}, month : {1, 2}, year : {2025}, hour : {9}, minute : {5}] :
      t.day = 1 \/ t.month = 1 }

Key(t) == <<t.year, t.month, t.day, t.hour, t.minute>>

RECURSIVE tuple_less(_, _)
tuple_less(a, b) ==
  IF Len(a) = 0 THEN FALSE
  ELSE IF Head(a) # Head(b) THEN Head(a) < Head(b)
  ELSE tuple_less(Tail(a), Tail(b))

Before(t1, t2) == tuple_less(Key(t1), Key(t2))

(***************************************************************************)
(* The texts the analysis returns in the application model.                *)
(***************************************************************************)
Tea == <<"T","e","a","\n","5"," ","k","c","a","l">>

Egg ==
  <<"E","g","g","\n","9","0"," ","k","c","a","l","\n",
    "P","r","o","t","e","i","n"," ","6"," ","C","a","r","b","s"," ","1"," ",
    "F","a","t",":","7">>

Water ==
  <<"*","*","\n","0","k","c","a","l"," ",
    "P","r","o","t","e","i","n",":","0"," ","c","a","r","b",":","0"," ",
    "F","a","t","s"," ","0">>

Rice ==
  <<"R","i","c","e","\n","P","r","o","t","e","i","n",":"," ","1","\n",
    "C","a","r","b","s",":"," ","2">>

(* a number of one digit more than int converts *)
LongDigits == [i \in 1..(int_max_str_digits + 1) |-> "1"]

LongKcal == LongDigits \o <<" ","k","c","a","l">>

LongFat ==
  <<"5"," ","k","c","a","l"," ","P","r","o","t","e","i","n",":"," ","1"," ",
    "C","a","r","b","s",":"," ","1"," ","F","a","t",":"," ">> \o LongDigits

ChartResults == { Egg, Water, Rice }

LongResults == { LongKcal, LongFat }

(***************************************************************************)
(* Texts built from at most MaxFrags fragments.                            *)
(***************************************************************************)
Texts(F) == { concat(fs) : fs \in UNION { [1..n -> F] : n \in 0..MaxFrags } }

CalFrags ==
  { <<"1","2">>,
    <<"0">>,
    <<" ">>,
    <<"k","c","a","l">>,
    <<"K","C","A","L">>,
    <<"7"," ","k","c","a","l">>,
    <<"x">>,
    <<"\f">> }

MacroFrags ==
  { <<"P","r","o","t","e","i","n",":"," ","3">>,
    <<"c","a","r","b","s"," ","2">>,
    <<"F","A","T",":"," ","1">>,
    <<"P","r","o","t","e","i","n">>,
    <<"C","a","r","b">>,
    <<"F","a","t">>,
    <<":"," ">>,
    <<"0">>,
    <<"U+000B">> }

PdfFrags ==
  { <<"a">>,
    <<"\f">>,
    <<"\n">>,
    <<"*">>,
    <<"*","\n">>,
    <<"<","b",">">>,
    <<"G","o","o","d">>,
    <<"&">> }

(***************************************************************************)
(* State after start-up: init_db on a fresh database, sessions logged out. *)
(***************************************************************************)
NoSession == [logged_in |-> FALSE, username |-> ""]

(* where the script of a session stands: idle between runs, before the run
   that st.rerun() asked for, or in an analysis between the committed INSERT
   and the rest of the run *)
Idle == [at |-> "idle", args |-> <<>>]

FirstTime == CHOOSE t \in Times : \A t2 \in Times : ~Before(t2, t)

(* what a run shows: the page, the message of st.error, st.warning or
   st.success, the history rows, the chart, the report and the share link;
   error names the exception that ended the run, if one did *)
Shown(ev, s, in, page, msg, rows, chart, pdf) ==
  [event |-> ev, sess |-> s, inputs |-> in, page |-> page, msg |-> msg,
   rows |-> rows, chart |-> chart, pdf |-> pdf, share |-> <<>>, error |-> ""]

(* a run of the main page ended by an uncaught exception: what follows the
   raising statement is not shown *)
Raised(ev, s, in, e) ==
  [Shown(ev, s, in, "main", "", <<>>, <<>>, <<>>) EXCEPT !.error = e]

InitApp ==
  /\ users = {}
  /\ history = {}
  /\ seq = 0
  /\ lock = FALSE
  /\ session = [s \in Sessions |-> NoSession]
  /\ run = [s \in Sessions |-> Idle]
  /\ out = Shown("start", "", <<>>, "auth", "", <<>>, <<>>, <<>>)

Init ==
  /\ InitApp
  /\ text = <<>>
  /\ pc = "app"
  /\ ret = 0

(***************************************************************************)
(* One action per run of the script for a session, and one per part of a   *)
(* run that other sessions can interleave with: each statement on the      *)
(* database opens, commits and closes its own connection.  A session takes *)
(* its next event when its run has ended.                                  *)
(*                                                                         *)
(* lock: a connection that a run left open inside the transaction of a     *)
(* rejected INSERT still holds the write lock of the database.  Reads and  *)
(* init_db go through; an INSERT of another connection waits for the       *)
(* timeout and raises OperationalError (database is locked).  The lock     *)
(* goes when the garbage collector frees the connection.                   *)
(*                                                                         *)
(* The analysed texts: Tea at any time, and a text whose calories have     *)
(* more digits than int converts, as the first analysis after a login.     *)
(***************************************************************************)
(* a browser session starts: the session state is initialised *)
NewSession(s) ==
  /\ run[s] = Idle
  /\ session' = [session EXCEPT ![s] = NoSession]
  /\ out' = Shown("new", s, <<>>, "auth", "", <<>>, <<>>, <<>>)
  /\ UNCHANGED <<users, history, seq, lock, run, fnvars>>

(* the Login button: a success sets the session state and ends the run in
   st.rerun(), nothing is shown yet *)
Login(s, u, p) ==
  /\ run[s] = Idle
  /\ ~session[s].logged_in
  /\ IF credentials_ok(users, u, p)
     THEN /\ session' = [session EXCEPT ![s] = [logged_in |-> TRUE, username |-> u]]
          /\ run' = [run EXCEPT ![s] = [at |-> "rerun", args |-> <<>>]]
          /\ out' = Shown("login", s, <<u, p>>, "rerun", "", <<>>, <<>>, <<>>)
     ELSE /\ UNCHANGED <<session, run>>
          /\ out' = Shown("login", s, <<u, p>>, "auth", "Invalid credentials",
                          <<>>, <<>>, <<>>)
  /\ UNCHANGED <<users, history, seq, lock, fnvars>>

(* the run that st.rerun() asked for: the main page with the history *)
Rerun(s) ==
  /\ run[s].at = "rerun"
  /\ run' = [run EXCEPT ![s] = Idle]
  /\ \E rows \in select_history(history, session[s].username) :
       out' = Shown("rerun", s, <<>>, "main", "", rows, <<>>, <<>>)
  /\ UNCHANGED <<users, history, seq, lock, session, fnvars>>

(* the Create Account button.  Every exception of the INSERT is caught and
   shown as the same message: the rejection by the primary key, and the
   locked database.  commit and close are skipped then: the connection of a
   rejected INSERT stays open with the write lock *)
CreateAccount(s, nu, np) ==
  /\ run[s] = Idle
  /\ ~session[s].logged_in
  /\ IF lock
     THEN /\ out' = Shown("create", s, <<nu, np>>, "auth",
                          "Username already exists", <<>>, <<>>, <<>>)
          /\ UNCHANGED <<users, lock>>
     ELSE LET res == insert_user(users, nu, hash_pass(np))
          IN  /\ users' = res.tbl
              /\ lock' = ~res.ok
              /\ out' = Shown("create", s, <<nu, np>>, "auth",
                              IF res.ok THEN "Account created. Login now."
                                        ELSE "Username already exists",
                              <<>>, <<>>, <<>>)
  /\ UNCHANGED <<history, seq, session, run, fnvars>>

(* the garbage collector frees the connection a run left open: its
   transaction is rolled back and the lock released *)
Collect ==
  /\ lock
  /\ lock' = FALSE
  /\ UNCHANGED <<users, history, seq, session, run, out, fnvars>>

(* the Analyse Food button: uploaded tells whether an image is uploaded,
   result is the text the analysis returns, now is the reading of the clock
   for the history row.  Without an image the run warns and shows the
   history; with one it stores the row and goes on in AnalyseReport, unless
   an exception ends it: of int in extract_calories, of binding the
   calories, or of the INSERT on the locked database *)
Analyse(s, uploaded, result, now) ==
  /\ run[s] = Idle
  /\ session[s].logged_in
  /\ LET u == session[s].username
         calories == extract_calories(result)
         in == <<uploaded, result, now>>
     IN  IF ~uploaded
         THEN /\ \E rows \in select_history(history, u) :
                   out' = Shown("analyse", s, <<uploaded>>, "main",
                                "Upload image first", rows, <<>>, <<>>)
              /\ UNCHANGED <<history, seq, run>>
         ELSE IF calories = ValueError
         THEN /\ out' = Raised("analyse", s, in, "ValueError")
              /\ UNCHANGED <<history, seq, run>>
         ELSE IF sqlite_overflow(calories)
         THEN /\ out' = Raised("analyse", s, in, "OverflowError")
              /\ UNCHANGED <<history, seq, run>>
         ELSE IF lock
         THEN /\ out' = Raised("analyse", s, in, "OperationalError")
              /\ UNCHANGED <<history, seq, run>>
         ELSE /\ Cardinality(history) < MaxHistory
              /\ history' = insert_history(history, seq, history_row(u, now, result))
              /\ seq' = next_id(history, seq)
              /\ run' = [run EXCEPT ![s] = [at |-> "report", args |-> <<result, now>>]]
              /\ out' = Shown("analyse", s, in, "running", "", <<>>, <<>>, <<>>)
  /\ UNCHANGED <<users, lock, session, fnvars>>

(* the rest of the analysis run: chart, report (pnow is its reading of the
   clock), share link and the history of the user; an exception of int in
   extract_macros ends the run before them *)
AnalyseReport(s, pnow) ==
  /\ run[s].at = "report"
  /\ run' = [run EXCEPT ![s] = Idle]
  /\ LET result == run[s].args[1]
         now == run[s].args[2]
         m == extract_macros(result)
     IN  IF m = <<ValueError>>
         THEN out' = Raised("report", s, <<TRUE, result, now>>, "ValueError")
         ELSE \E rows \in select_history(history, session[s].username) :
                out' = [Shown("report", s, <<TRUE, result, now>>, "main", "", rows,
                              pie_chart(m), generate_pdf(result, pnow))
                          EXCEPT !.share = whatsapp_share(
                                   share_text(Spelling[session[s].username], result))]
  /\ UNCHANGED <<users, history, seq, lock, session, fnvars>>

(* a run of the script without a button: the history view of a logged-in
   session, the authentication page otherwise *)
View(s) ==
  /\ run[s] = Idle
  /\ IF session[s].logged_in
     THEN \E rows \in select_history(history, session[s].username) :
            out' = Shown("view", s, <<>>, "main", "", rows, <<>>, <<>>)
     ELSE out' = Shown("view", s, <<>>, "auth", "", <<>>, <<>>, <<>>)
  /\ UNCHANGED <<users, history, seq, lock, session, run, fnvars>>

Next ==
  \/ \E s \in Sessions : NewSession(s)
  \/ \E s \in Sessions, u \in Usernames, p \in Passwords : Login(s, u, p)
  \/ \E s \in Sessions : Rerun(s)
  \/ \E s \in Sessions, nu \in Usernames, np \in Passwords : CreateAccount(s, nu, np)
  \/ Collect
  \/ \E s \in Sessions, uploaded \in BOOLEAN : Analyse(s, uploaded, Tea, FirstTime)
  \/ \E s \in Sessions :
        /\ out.event = "rerun" /\ out.sess = s /\ history = {}
        /\ Analyse(s, TRUE, LongKcal, FirstTime)
  \/ \E s \in Sessions : AnalyseReport(s, FirstTime)
  \/ \E s \in Sessions : View(s)

Spec == Init /\ [][Next]_vars

(***************************************************************************)
(* The history of logged-in users: the state after u1 and u2 created their *)
(* accounts, s1 logged in as u1 and s2 as u1 or as u2, with or without a   *)
(* connection left open by a rejected Create Account; then analyses and    *)
(* views with every reading of the clock, in any order of the readings.    *)
(***************************************************************************)
LoggedIn ==
  /\ users = { [username |-> "u1", password |-> hash_pass("pw1")],
               [username |-> "u2", password |-> hash_pass("pw2")] }
  /\ history = {}
  /\ seq = 0
  /\ lock \in BOOLEAN
  /\ \E r \in users :
       /\ session = [s \in Sessions |->
                       [logged_in |-> TRUE,
                        username |-> IF s = "s1" THEN "u1" ELSE r.username]]
       /\ out = Shown("rerun", "s2", <<>>, "main", "", <<>>, <<>>, <<>>)
  /\ run = [s \in Sessions |-> Idle]

InitHistory ==
  /\ LoggedIn
  /\ text = <<>>
  /\ pc = "app"
  /\ ret = 0

NextHistory ==
  \/ \E s \in Sessions, uploaded \in BOOLEAN, now \in Times :
        Analyse(s, uploaded, Tea, now)
  \/ \E s \in Sessions :
        out.event = "rerun" /\ out.sess = s /\ Analyse(s, TRUE, LongKcal, FirstTime)
  \/ \E s \in Sessions, pnow \in Times : AnalyseReport(s, pnow)
  \/ \E s \in Sessions : View(s)
  \/ Collect

SpecHistory == InitHistory /\ [][NextHistory]_vars

(***************************************************************************)
(* Session s1 analysing texts with a complete, a zero and a partial macro  *)
(* profile, after an analysis, as the first event, of a text with calories *)
(* or macros too long for int (text holds what the analysis returns to the *)
(* first event); with or without a connection left open by a rejected      *)
(* Create Account.                                                         *)
(***************************************************************************)
InitChart ==
  /\ LoggedIn
  /\ text \in LongResults
  /\ pc = "app"
  /\ ret = 0

NextChart ==
  \/ \E uploaded \in BOOLEAN, result \in ChartResults :
        Analyse("s1", uploaded, result, FirstTime)
  \/ out.event = "rerun" /\ Analyse("s1", TRUE, text, FirstTime)
  \/ AnalyseReport("s1", FirstTime)
  \/ \E s \in Sessions : View(s)
  \/ Collect

SpecChart == InitChart /\ [][NextChart]_vars

(***************************************************************************)
(* The extraction and rendering functions applied to bounded texts.        *)
(***************************************************************************)
InitCalories ==
  /\ InitApp
  /\ text \in Texts(CalFrags) \cup {LongKcal}
  /\ pc = "call"
  /\ ret = 0

CallExtractCalories ==
  /\ pc = "call"
  /\ ret' = extract_calories(text)
  /\ pc' = "calories"
  /\ UNCHANGED <<text, appvars>>

NextCalories == CallExtractCalories

SpecCalories == InitCalories /\ [][NextCalories]_vars

InitMacros ==
  /\ InitApp
  /\ text \in Texts(MacroFrags) \cup {LongFat}
  /\ pc = "call"
  /\ ret = 0

CallExtractMacros ==
  /\ pc = "call"
  /\ ret' = extract_macros(text)
  /\ pc' = "macros"
  /\ UNCHANGED <<text, appvars>>

NextMacros == CallExtractMacros

SpecMacros == InitMacros /\ [][NextMacros]_vars

InitPdf ==
  /\ InitApp
  /\ text \in Texts(PdfFrags)
  /\ pc = "call"
  /\ ret = 0

CallGeneratePdf ==
  /\ pc = "call"
  /\ \E now \in Times : ret' = generate_pdf(text, now)
  /\ pc' = "pdf"
  /\ UNCHANGED <<text, appvars>>

NextPdf == CallGeneratePdf

SpecPdf == InitPdf /\ [][NextPdf]_vars

(***************************************************************************)
(* Properties.                                                             *)
(***************************************************************************)
(* the moment a DD-MM-YYYY HH:MM string denotes, most significant first *)
ParseTime(d) ==
  << decimal(SubSeq(d, 7, 10)), decimal(SubSeq(d, 4, 5)), decimal(SubSeq(d, 1, 2)),
     decimal(SubSeq(d, 12, 13)), decimal(SubSeq(d, 15, 16)) >>

Later(d1, d2) == tuple_less(ParseTime(d2), ParseTime(d1))

Project(r) == [date |-> r.date, meal |-> r.meal, calories |-> r.calories]

(* the last run showed the history *)
Listed == out.page = "main" /\ out.error = ""

(* the last run was an analysis that went through to its end *)
Uploaded == out.event = "report" /\ out.error = ""

(* the row stored last: the one with the largest identifier *)
Newest == CHOOSE r \in history : \A q \in history : q.id <= r.id

(* the text before the first newline *)
TitleOf(s) ==
  LET nl == { i \in 1..Len(s) : s[i] = "\n" }
  IN  IF nl = {} THEN s ELSE SubSeq(s, 1, Min(nl) - 1)

(* C1: the history shown to a user lists the user's records newest first:
   of two rows, the one whose timestamp denotes the later moment comes
   first. *)
C1_NewestFirst ==
  Listed =>
    \A i, j \in 1..Len(out.rows) :
      Later(out.rows[i].date, out.rows[j].date) => i < j

(* C2: the history query returns exactly the records of the owner, each
   once, none of another user, and the empty sequence for an owner without
   records. *)
C2_OwnRecordsOnly ==
  Listed =>
    LET mine == { r \in history : r.username = session[out.sess].username }
        n == Len(out.rows)
    IN  /\ n = Cardinality(mine)
        /\ (mine = {} => out.rows = <<>>)
        /\ \E f \in [1..n -> mine] :
             /\ \A i, j \in 1..n : i # j => f[i] # f[j]
             /\ \A i \in 1..n : out.rows[i] = Project(f[i])

C2_Witness ==
  /\ Listed
  /\ Len(out.rows) >= 1
  /\ \E r \in history : r.username # session[out.sess].username

(* C3: the history table only grows: every row stays as it is, the number
   of rows never decreases, and a new row gets an identifier greater than
   every identifier assigned before. *)
C3_AppendOnly ==
  [][ /\ history \subseteq history'
      /\ Cardinality(history') >= Cardinality(history)
      /\ \A r \in history' \ history :
           r.id > seq /\ \A q \in history : r.id > q.id ]_vars

(* two rows of one user in the table, after an analysis that the locked
   database ended with an exception *)
C3_Witness ==
  /\ out.event = "analyse"
  /\ out.error = "OperationalError"
  /\ \E r, q \in history : r.id < q.id /\ r.username = q.username

(* the rows of the table that hold the record of the analysis shown *)
Stored ==
  { r \in history :
      /\ r.username = session[out.sess].username
      /\ r.date = strftime(out.inputs[3])
      /\ r.meal = TitleOf(out.inputs[2])
      /\ r.calories = extract_calories(out.inputs[2])
      /\ r.details = out.inputs[2] }

(* C4: after an analysis is stored, the rows of the owner's history query
   contain one equal to the stored record in title, calories, timestamp and
   raw text. *)
C4_RoundTripRawText ==
  Uploaded =>
    \E r \in Stored : \E i \in 1..Len(out.rows) :
      /\ out.rows[i].date = r.date
      /\ out.rows[i].meal = r.meal
      /\ out.rows[i].calories = r.calories
      /\ "details" \in DOMAIN out.rows[i]
      /\ out.rows[i].details = r.details

(* some occurrence of the label, a word suffix if the pattern allows one,
   one or more colons or blanks, and a digit *)
HasField(s, label, suffix) ==
  \E i \in 1..Len(s) :
    /\ LitAt(s, i, label)
    /\ \E w \in (i + Len(label))..(IF suffix THEN Len(s) ELSE i + Len(label)) :
         /\ \A n \in (i + Len(label))..(w - 1) : IsWord(s[n])
         /\ \E k \in (w + 1)..Len(s) :
              /\ \A n \in w..(k - 1) : s[n] = ":" \/ IsSpace(s[n])
              /\ IsDigit(s[k])

(* the three patterns each match somewhere in the text *)
AllThree(s) ==
  /\ HasField(s, Protein, FALSE)
  /\ HasField(s, Carb, TRUE)
  /\ HasField(s, Fat, TRUE)

(* C5: for every text extract_macros returns a result: three integers
   exactly when the Protein, the Carb and the Fat pattern each match
   somewhere in the text, and three absent components otherwise; never one
   or two. *)
C5_AllOrNothing ==
  pc = "macros" =>
    /\ Len(ret) = 3
    /\ AllThree(text) => \A i \in 1..3 : ret[i] \in Nat
    /\ ~AllThree(text) => ret = <<None, None, None>>
    /\ Cardinality({ i \in 1..3 : ret[i] = None }) \in {0, 3}

(* what holds of extract_macros on every text: all or nothing whenever it
   returns, and it returns unless the three patterns match and int raises *)
AllOrNothingIfReturned ==
  pc = "macros" =>
    IF ret = <<ValueError>>
    THEN AllThree(text) /\ Len(text) > int_max_str_digits
    ELSE /\ Len(ret) = 3
         /\ AllThree(text) => \A i \in 1..3 : ret[i] \in Nat
         /\ ~AllThree(text) => ret = <<None, None, None>>
         /\ Cardinality({ i \in 1..3 : ret[i] = None }) \in {0, 3}

RawLines(s) == split(s)

NonBlank(line) == \E n \in 1..Len(line) : ~IsSpace(line[n])

Visible(line) == \E n \in 1..Len(line) : ~IsSpace(line[n]) /\ line[n] # "*"

Frame(story) ==
  /\ Len(story) >= 6
  /\ story[1] = Para(TitleText, "Title")
  /\ story[3].kind = "Paragraph" /\ story[3].style = "Normal"
  /\ SubSeq(story[3].text, 1, Len(GeneratedOn)) = GeneratedOn
  /\ story[Len(story)] = Para(FooterText, "Italic")
  /\ \A n \in 4..(Len(story) - 1) :
       story[n].kind = "Paragraph" => story[n].style = "NormalText"

HexValue(c) == (CHOOSE i \in 1..Len(Hex) : Hex[i] = c) - 1

(* position i of q starts a character or an escape of three characters *)
UnitStart(q, i) ==
  /\ ~(i > 1 /\ q[i - 1] = "%")
  /\ ~(i > 2 /\ q[i - 2] = "%")

(* the bytes a percent-encoded string stands for: q is cut at the start of
   a unit near its middle *)
RECURSIVE PercentBytes(_)
PercentBytes(q) ==
  IF Len(q) = 0 THEN <<>>
  ELSE IF Len(q) = 1 THEN <<ord(q[1])>>
  ELSE IF Len(q) = 3 /\ q[1] = "%" THEN <<16 * HexValue(q[2]) + HexValue(q[3])>>
  ELSE LET m == (Len(q) \div 2) + 1
           before == { i \in 2..m : UnitStart(q, i) }
           after == { i \in (m + 1)..Len(q) : UnitStart(q, i) }
           cut == IF before # {} THEN Max(before) ELSE Min(after)
       IN  PercentBytes(SubSeq(q, 1, cut - 1)) \o PercentBytes(SubSeq(q, cut, Len(q)))

Utf8Bytes(t) == concat([i \in 1..Len(t) |-> utf8(ord(t[i]))])

(* link is the wa.me link whose text parameter, written in letters, digits,
   _ . - ~ / and percent escapes only, decodes to the message that names the
   user, holds the whole analysis text and ends with the address of the app *)
ShareLinkOf(link, username, result) ==
  LET q == SubSeq(link, Len(wa_me) + 1, Len(link))
  IN  /\ Len(link) > Len(wa_me)
      /\ SubSeq(link, 1, Len(wa_me)) = wa_me
      /\ \A n \in 1..Len(q) : q[n] \in Unreserved \cup {"%"}
      /\ PercentBytes(q) = Utf8Bytes(share_text(Spelling[username], result))

(* C6: an analysis that has a macro extraction result draws the chart
   exactly when the profile is present and protein + carb + fat > 0; when
   the profile is absent or the sum is 0 there is no chart and the run ends
   without an error: the report of the text is built, the share link of the
   user and the text is shown, the record is in the table and in the history
   listed. *)
C6_ChartIffPositive ==
  (out.event = "report" /\ extract_macros(out.inputs[2]) # <<ValueError>>) =>
    LET result == out.inputs[2]
        m == extract_macros(result)
        present == \A i \in 1..3 : m[i] # None
        u == session[out.sess].username
    IN  /\ (out.chart # <<>>) <=> (present /\ m[1] + m[2] + m[3] > 0)
        /\ out.chart # <<>> => out.chart = m
        /\ out.chart = <<>> =>
             /\ out.error = ""
             /\ out.page = "main"
             /\ Frame(out.pdf)
             /\ Len(BodyParagraphs(out.pdf)) = Len(SelectSeq(RawLines(result), Visible))
             /\ \A n \in 1..Len(BodyParagraphs(out.pdf)) :
                  BodyParagraphs(out.pdf)[n].text
                    = clean_text(SelectSeq(RawLines(result), Visible)[n])
             /\ ShareLinkOf(out.share, u, result)
             /\ \E r \in history :
                  /\ r.username = u
                  /\ r.details = result
                  /\ \E n \in 1..Len(out.rows) : out.rows[n] = Project(r)

(* the chart is skipped for a profile of sum 0 and for an absent one, in a
   table that holds the record of an analysis whose macro extraction raised *)
C6_Witness ==
  /\ Uploaded
  /\ out.inputs[2] = Water
  /\ extract_macros(out.inputs[2]) = <<0, 0, 0>>
  /\ out.chart = <<>>
  /\ out.share # <<>>
  /\ \E r \in history : r.details = LongFat

(* the occurrences of digits, optional blanks, kcal: start and end of the
   digits *)
KcalOccurrences(s) ==
  { o \in (1..Len(s)) \X (1..(Len(s) + 1)) :
      /\ o[1] < o[2]
      /\ \A n \in o[1]..(o[2] - 1) : IsDigit(s[n])
      /\ \E k \in o[2]..Len(s) :
           /\ \A n \in o[2]..(k - 1) : IsSpace(s[n])
           /\ LitAt(s, k, kcal) }

(* C7: for every text extract_calories returns, without an error, the
   number of the leftmost occurrence of digits followed by kcal in any
   letter case, and 0 when there is none; the result is a natural number. *)
C7_FirstKcal ==
  pc = "calories" =>
    /\ ret \in Nat
    /\ KcalOccurrences(text) = {} => ret = 0
    /\ KcalOccurrences(text) # {} =>
         \E o \in KcalOccurrences(text) :
           /\ \A q \in KcalOccurrences(text) : o[1] <= q[1]
           /\ ret = decimal(SubSeq(text, o[1], o[2] - 1))

(* what holds of extract_calories on every text: the number of the leftmost
   occurrence or 0 whenever it returns, and it returns unless int raises *)
FirstKcalIfReturned ==
  pc = "calories" =>
    IF ret = ValueError
    THEN Len(text) > int_max_str_digits
    ELSE /\ ret \in Nat
         /\ KcalOccurrences(text) = {} => ret = 0
         /\ KcalOccurrences(text) # {} =>
              \E o \in KcalOccurrences(text) :
                /\ \A q \in KcalOccurrences(text) : o[1] <= q[1]
                /\ ret = decimal(SubSeq(text, o[1], o[2] - 1))

(* C8 as stated: the report has one body paragraph for each non-blank line
   of the raw text, in order, and none for blank lines. *)
C8_ParagraphPerNonBlankLine ==
  pc = "pdf" =>
    /\ Frame(ret)
    /\ Len(BodyParagraphs(ret)) = Len(SelectSeq(RawLines(text), NonBlank))

(* C8 amended: between title, timestamp and footer the report has one body
   paragraph, in order, for each line of the raw text that holds a character
   other than white space and the asterisk; the paragraph is the cleaned
   line; the empty text gives no body paragraph. *)
C8_ParagraphPerVisibleLine ==
  pc = "pdf" =>
    LET body == BodyParagraphs(ret)
        keep == SelectSeq(RawLines(text), Visible)
    IN  /\ Frame(ret)
        /\ Len(body) = Len(keep)
        /\ \A n \in 1..Len(body) : body[n].text = clean_text(keep[n])
        /\ \A n \in 1..Len(body) : NonBlank(body[n].text)
        /\ text = <<>> => Len(body) = 0 /\ Len(ret) = 6

C8_Witness ==
  /\ pc = "pdf"
  /\ \E n \in 1..Len(RawLines(text)) :
       NonBlank(RawLines(text)[n]) /\ ~Visible(RawLines(text)[n])
  /\ \E n \in 1..Len(RawLines(text)) : ~NonBlank(RawLines(text)[n])
  /\ Len(BodyParagraphs(ret)) >= 1

(* C9: usernames are unique, and creating an account with a username that
   exists shows the already-exists error, leaves the users table as it was
   and does not log the session in. *)
C9_UniqueUsernames ==
  /\ [](\A r, q \in users : r.username = q.username => r = q)
  /\ [][ (out'.event = "create" /\ \E r \in users : r.username = out'.inputs[1]) =>
           /\ out'.msg = "Username already exists"
           /\ users' = users
           /\ ~session'[out'.sess].logged_in ]_vars

(* the rejected INSERT left its connection open with the write lock *)
C9_Witness ==
  /\ out.event = "create"
  /\ out.msg = "Username already exists"
  /\ lock
  /\ \E r \in users :
       r.username = out.inputs[1] /\ r.password # hash_pass(out.inputs[2])

(* C10: the owner of every history record is a registered username; a
   session becomes logged in only by a login with an existing username and
   the password whose hash is stored; a failed login leaves the session
   logged out with the empty username; a record is added only by a
   logged-in session with an uploaded image and is owned by that session's
   user. *)
C10_OwnersAreUsers ==
  /\ [](\A h \in history : \E r \in users : r.username = h.username)
  /\ [][ /\ \A s \in Sessions :
              (~session[s].logged_in /\ session'[s].logged_in) =>
                /\ out'.event = "login" /\ out'.sess = s
                /\ session'[s].username = out'.inputs[1]
                /\ [username |-> out'.inputs[1],
                    password |-> hash_pass(out'.inputs[2])] \in users
         /\ (out'.event = "login" /\ out'.msg = "Invalid credentials") =>
              session'[out'.sess] = NoSession
         /\ history' # history =>
              /\ out'.event = "analyse" /\ out'.inputs[1]
              /\ session[out'.sess].logged_in
              /\ \A h \in history' \ history :
                   h.username = session[out'.sess].username ]_vars

C10_Witness ==
  /\ out.event = "login"
  /\ out.msg = "Invalid credentials"
  /\ history # {}
  /\ \E s \in Sessions : session[s].logged_in

====
